---------------------------- MODULE Spec2Model ----------------------------
(***************************************************************************)
(* JobBuddy follow-up scheduler: SchedulerService (scheduler.service.ts),  *)
(* DateUtils.calculateNextFollowUpDate (date.utils.ts), the job            *)
(* application / follow-up collections it reads and writes, and the email  *)
(* service it calls.                                                       *)
(*                                                                         *)
(* Node runs the service on one thread: the code between two awaits is one *)
(* atomic step, and every await (store query, email send, store write,     *)
(* backoff sleep) is a point where other callbacks run.  Each action below *)
(* is one such segment.  processFollowUps() is started by the setInterval  *)
(* callback of start() and by direct calls; nothing in the code keeps two  *)
(* invocations from being in flight together, so the model holds one       *)
(* record per invocation slot.  The timer drops the promise of the call it *)
(* makes, so a rejected call of the timer is an unhandled rejection, which *)
(* Node answers with a warning or with the end of the process.             *)
(*                                                                         *)
(* Each specification below takes the part of the program its properties   *)
(* are about: the scheduler with both callers (Spec), with the timer only  *)
(* (SpecTimer), with a far time zone (SpecZones), with a small batch       *)
(* (SpecBatch), its lifecycle calls (SpecLifecycle), getStatus             *)
(* (SpecHealth), validated writes (SpecValidate) and the follow-up         *)
(* endpoint (SpecController).                                              *)
(*                                                                         *)
(* Time is counted in units of 12 hours; a calendar day is DayUnits units. *)
(* Zones have fixed offsets (no daylight saving change).  A store or email *)
(* call takes no whole time unit: the clock a step reads is the clock at   *)
(* the moment the call answers.                                            *)
(***************************************************************************)
EXTENDS Integers, Sequences, FiniteSets, Bags, TLC

\* ------------------------------------------------------------------ bounds
MaxTime == 1
MaxFaults == 2
MaxThreshold == 5
MaxErrorCount == 6
MaxStartFaults == 4
MaxCount == 2
MaxErrors == 12
MaxDate == 4
MaxDays == 2

\* -------------------------------------------------------- program constants
DayUnits == 2
MaxRetryAttempts == 3
MaxStartupAttempts == 3
DefaultMaxCount == 1
DefaultBatchSize == 50
DegradedThreshold == 3
UnhealthyThreshold == 5

Apps == {"a1", "a2"}
Cycles == {"c1", "c2"}

\* A nullable number is <<>> (null / absent) or <<n>>.
Null == <<>>
Some(n) == <<n>>
IfNull(x, d) == IF x = Null THEN d ELSE x[1]

Zones == {"UTC", "Etc/GMT+12", "Etc/GMT-12"}
\* Offset from UTC of a zone, in time units (Etc/GMT+12 is UTC-12h).
ZoneOffset(z) ==
  CASE z = "UTC" -> 0
    [] z = "Etc/GMT+12" -> -1
    [] z = "Etc/GMT-12" -> 1

\* A document that has had no follow-up yet (count 0, no last date) and is
\* due from the start.
NewDoc(status, maxCount, tz) ==
  [status |-> status,
   interval_days |-> 1,
   max_count |-> maxCount,
   follow_up_count |-> 0,
   last_follow_up_date |-> Null,
   next_follow_up_date |-> 0,
   timezone |-> tz]

\* The collections the service may find when it is constructed.  The first
\* application allows two follow-ups; the second has no max_count and may
\* have been answered.  Process and policies share one zone.
InitialApps ==
  {[a \in Apps |-> IF a = "a1" THEN NewDoc("sent", Some(2), "UTC")
                                ELSE NewDoc(st, Null, "UTC")] :
     st \in {"sent", "responded"}}

\* More due applications than a batch of one holds.
InitialAppsBacklog ==
  {[a1 |-> NewDoc("sent", Some(2), "UTC"),
    a2 |-> [NewDoc("sent", Null, "UTC") EXCEPT !.next_follow_up_date = -1]]}

\* The same with the first application's policy in a zone 24 hours behind
\* the zone of the process, and a second application that is not due.
InitialAppsZones ==
  {[a \in Apps |-> IF a = "a1" THEN NewDoc("sent", Some(2), "Etc/GMT+12")
                                ELSE NewDoc("responded", Null, "Etc/GMT-12")]}

VARIABLES
  apps,          \* job_applications collection: id -> document
  followUps,     \* follow_ups collection: a bag of records
  now,           \* the wall clock, in time units
  sysZone,       \* the zone of the Node process
  batchSize,     \* schedulerConfig.performance.batchSize
  harness,       \* who calls each invocation slot: the timer or a direct caller
  thresholds,    \* schedulerConfig.health: degradedThreshold, unhealthyThreshold
  maxAttempts,   \* schedulerConfig.retry.maxAttempts
  status,        \* what the last getStatus() returned (Null: not called yet)
  poller,        \* SchedulerService.poller (TRUE: an interval timer is installed)
  isRunning,     \* SchedulerService.isRunning
  errorCount,    \* SchedulerService.errorCount
  retryCount,    \* SchedulerService.retryCount
  startupAttempts, \* SchedulerService.startupAttempts
  timers,        \* the interval timers alive in the event loop
  startCall,     \* a start() call that met a failure: position, attempts made
  restartCall,   \* the restart() call: position or outcome
  writeCall,     \* the last validated write of follow-up settings, or Null
  dateCall,      \* the last call of calculateNextFollowUpDate, or Null
  cycles,        \* the processFollowUps() invocations in flight
  exited,        \* the Node process has exited on an unhandled rejection
  faults         \* history: failures of the email service and the store so far

vars == <<apps, followUps, now, sysZone, batchSize, harness, thresholds, maxAttempts, status,
          poller, isRunning,
          errorCount, retryCount, startupAttempts, timers, startCall,
          restartCall, writeCall, dateCall, cycles, exited, faults>>

schedVars == <<poller, isRunning, startupAttempts, timers>>
callVars == <<startCall, restartCall, writeCall, dateCall>>
\* The configuration and what a caller of getStatus() has seen: no step of
\* start, stop or processFollowUps changes them.
envVars == <<sysZone, batchSize, harness, thresholds, maxAttempts, status>>

\* ------------------------------------------------------------ date.utils.ts
\* date-fns addDays: the same wall-clock time `days` days later.
AddDays(t, days) == t + days * DayUnits

\* date-fns-tz toZonedTime: a Date whose fields, read in the process zone,
\* show the wall-clock time of `t` in zone `tz`; as an instant it is `t`
\* moved by the difference of the two offsets.
ToZonedTime(t, tz) == t + ZoneOffset(tz) - ZoneOffset(sysZone)

\* DateUtils.calculateNextFollowUpDate, for a valid date and intervalDays >= 0.
CalculateNextFollowUpDate(currentDate, intervalDays, timezone) ==
  ToZonedTime(AddDays(currentDate, intervalDays), timezone)

\* DateUtils.toUTCTimestamp of a Date: its epoch value.
ToUTCTimestamp(d) == d

\* DateUtils.isFutureDate at time t: both dates go through toZonedTime.
IsFutureDate(d, tz, t) == ToZonedTime(d, tz) > ToZonedTime(t, tz)

\* ------------------------------------------------- FollowUpSettingsSchema
\* JavaScript truthiness of a number or null: null and 0 are falsy.
Truthy(x) == x # Null /\ x[1] # 0

\* pre('validate'): TRUE when the hook invalidates nothing.
PreValidate(in, t) ==
  /\ ~(in.interval_days < 1)
  /\ ~(in.max_count < 1)
  /\ ~(in.follow_up_count < 0)
  /\ Truthy(in.next_follow_up_date)
       => IsFutureDate(in.next_follow_up_date[1], in.timezone, t)

\* pre('save'): a falsy next_follow_up_date is replaced by the computed one.
PreSave(in, t) ==
  IF Truthy(in.next_follow_up_date)
    THEN in.next_follow_up_date[1]
    ELSE ToUTCTimestamp(CalculateNextFollowUpDate(t, in.interval_days, in.timezone))

\* The follow-up settings a client may send with a new application.
SettingsInputs ==
  [interval_days : 0..1,
   max_count : 0..1,
   follow_up_count : -1..0,
   next_follow_up_date : {Null} \cup {Some(n) : n \in 0..(MaxTime + 1)},
   timezone : {"UTC", "Etc/GMT+12"}]

\* ------------------------------------------------------------- the store
\* A filter that forgets the status.
DueFilterAnyStatus(doc, t) ==
  /\ doc.next_follow_up_date <= ToUTCTimestamp(t)
  /\ doc.follow_up_count < IfNull(doc.max_count, DefaultMaxCount)

\* The filter of JobApplication.find in processFollowUps, on one document.
DueFilter(doc, t) ==
  /\ doc.next_follow_up_date <= ToUTCTimestamp(t)
  /\ doc.follow_up_count < IfNull(doc.max_count, DefaultMaxCount)
  /\ doc.status = "sent"

\* The documents a find with this filter matches at time t.
DueQuery(t) == {a \in Apps : DueFilter(apps[a], t)}

Min(x, y) == IF x < y THEN x ELSE y

\* find(...).limit(n) gives no sort: any n of the matching documents, in any
\* order (fewer when fewer match).
Batches(S, n) ==
  {s \in UNION {[1..k -> S] : k \in {Min(n, Cardinality(S))}} :
     \A i, j \in DOMAIN s : i # j => s[i] # s[j]}

\* The document find returns: the stored fields with the id.
Snapshot(a) == [id |-> a] @@ apps[a]

FollowUpRecord(doc) ==
  [original_application_id |-> doc.id,
   status |-> "sent",
   follow_up_number |-> doc.follow_up_count + 1]

\* created and retries are history: the FollowUp records the invocation has
\* created, and the retry dispatches it has made.
IdleCycle ==
  [pc |-> "idle", batch |-> <<>>, idx |-> 0, retrying |-> FALSE, created |-> 0,
   retries |-> 0]

\* An invocation that is not running: never started, returned, or rejected.
Resting == {"idle", "done", "raised"}

\* The record of an invocation that ended with pc p; its locals are gone.
Ended(p) == [IdleCycle EXCEPT !.pc = p]

\* The application the invocation c is dispatching.
Current(c) == cycles[c].batch[cycles[c].idx]

TypeOK ==
  /\ now \in 0..MaxTime
  /\ faults \in 0..(MaxFaults + MaxStartFaults)
  /\ timers \in Nat /\ startupAttempts \in Nat
  /\ startCall.pc \in {"idle", "sleep", "ok", "failed"}
  /\ restartCall \in {"idle", "stopped", "starting", "ok", "error"}
  /\ batchSize > 0
  /\ poller \in BOOLEAN /\ isRunning \in BOOLEAN /\ exited \in BOOLEAN
  /\ harness \in [Cycles -> {"timer", "direct"}]
  /\ thresholds.degraded <= thresholds.unhealthy
  /\ status = Null \/ status[1].health \in {"healthy", "degraded", "unhealthy"}
  /\ errorCount \in Nat /\ retryCount \in 0..MaxRetryAttempts
  /\ \A c \in Cycles :
       cycles[c].pc \in {"idle", "query", "send", "create", "update",
                         "sleep", "done", "raised"}

\* No start() call is between attempts.  attempts: the installations the
\* call has tried; via: "start" for a direct call, "restart" for restart()'s.
NoStartCall == [pc |-> "idle", attempts |-> 0, via |-> "start"]

DefaultThresholds ==
  [degraded |-> DegradedThreshold, unhealthy |-> UnhealthyThreshold]

\* The setInterval callback drops the promise of the invocation it starts; a
\* direct caller awaits it.  One slot for each, or both for one of them.
TimerAndDirect == [c \in Cycles |-> IF c = "c1" THEN "timer" ELSE "direct"]
TimerOnly == [c \in Cycles |-> "timer"]
DirectOnly == [c \in Cycles |-> "direct"]

\* The state after construction of the singleton, for a process zone, a
\* batch size, a collection and the callers of processFollowUps.
ConstructedWith(zone, size, docs, callers, attempts) ==
  /\ now = 0
  /\ sysZone = zone
  /\ batchSize = size
  /\ harness = callers
  /\ thresholds = DefaultThresholds
  /\ maxAttempts = attempts
  /\ status = Null
  /\ apps = docs
  /\ followUps = EmptyBag
  /\ poller = FALSE
  /\ isRunning = FALSE
  /\ errorCount = 0
  /\ retryCount = 0
  /\ startupAttempts = 0
  /\ timers = 0
  /\ startCall = NoStartCall
  /\ restartCall = "idle"
  /\ writeCall = Null
  /\ dateCall = Null
  /\ cycles = [c \in Cycles |-> IdleCycle]
  /\ exited = FALSE
  /\ faults = 0

\* The service with the default retry ceiling.
Constructed(zone, size, docs, callers) ==
  ConstructedWith(zone, size, docs, callers, MaxRetryAttempts)

Init ==
  \E docs \in InitialApps :
    Constructed("UTC", DefaultBatchSize, docs, TimerAndDirect)

InitTimer ==
  \E docs \in InitialApps : Constructed("UTC", DefaultBatchSize, docs, TimerOnly)

InitZones ==
  \E docs \in InitialAppsZones :
    Constructed("Etc/GMT-12", DefaultBatchSize, docs, DirectOnly)

\* SCHEDULER_BATCH_SIZE=1 and a backlog of two due applications.
InitBatch ==
  \E docs \in InitialAppsBacklog : Constructed("UTC", 1, docs, TimerAndDirect)


\* ------------------------------------------------ SchedulerService.start/stop
\* The try block of start() with setInterval working, without the isRunning
\* test.
InstallTimer ==
  /\ poller' = TRUE
  /\ timers' = timers + 1
  /\ isRunning' = TRUE
  /\ startupAttempts' = 0

\* start() that installs a timer whether or not one is running.
StartBodyUnguarded == InstallTimer

\* The try block of start() when nothing throws: a warning and nothing else
\* when running; otherwise setInterval installs the poller.
StartBody ==
  IF isRunning THEN UNCHANGED schedVars ELSE InstallTimer

\* stop() that marks the scheduler stopped and leaves the timer alive.
StopBodyKeepsTimer ==
  IF ~isRunning
    THEN UNCHANGED schedVars
    ELSE /\ isRunning' = FALSE
         /\ UNCHANGED <<poller, timers, startupAttempts>>

\* stop(): a warning and nothing else when not running; otherwise
\* clearInterval of the poller, if there is one.
StopBody ==
  IF ~isRunning
    THEN UNCHANGED schedVars
    ELSE /\ timers' = IF poller THEN timers - 1 ELSE timers
         /\ poller' = FALSE
         /\ isRunning' = FALSE
         /\ UNCHANGED startupAttempts

\* The catch block of start() after setInterval threw in a call that has now
\* tried `made` installations: the attempt is counted; below the ceiling the
\* call sleeps and calls start() again, otherwise it throws.
InstallFails(via, made) ==
  LET failed == ~(startupAttempts + 1 < MaxStartupAttempts) IN
  /\ faults < MaxStartFaults
  /\ faults' = faults + 1
  /\ startupAttempts' = startupAttempts + 1
  /\ startCall' = [pc |-> IF failed THEN "failed" ELSE "sleep",
                   attempts |-> made, via |-> via]
  /\ restartCall' = IF via = "restart"
                      THEN (IF failed THEN "error" ELSE "starting")
                      ELSE restartCall
  /\ UNCHANGED <<poller, isRunning, timers>>

\* A start() call that returns at once.
Start ==
  /\ ~exited
  /\ StartBody
  /\ UNCHANGED <<apps, followUps, now, envVars, callVars, exited, errorCount,
                 retryCount, cycles, faults>>

\* A start() call whose setInterval throws.
StartFail ==
  /\ ~exited
  /\ ~isRunning
  /\ startCall.pc # "sleep"
  /\ InstallFails("start", 1)
  /\ UNCHANGED <<apps, followUps, now, envVars, writeCall, dateCall, exited, errorCount, retryCount,
                 cycles>>

\* The sleep of a failed attempt ends and start() is called again; it returns.
StartRetryOk ==
  /\ ~exited
  /\ startCall.pc = "sleep"
  /\ StartBody
  /\ startCall' = [startCall EXCEPT !.pc = "ok",
                     !.attempts = IF isRunning THEN @ ELSE @ + 1]
  /\ restartCall' = IF startCall.via = "restart" THEN "ok" ELSE restartCall
  /\ UNCHANGED <<apps, followUps, now, envVars, writeCall, dateCall, exited, errorCount, retryCount,
                 cycles, faults>>

\* The sleep ends, start() is called again and setInterval throws again.
StartRetryFail ==
  /\ ~exited
  /\ startCall.pc = "sleep"
  /\ ~isRunning
  /\ InstallFails(startCall.via, startCall.attempts + 1)
  /\ UNCHANGED <<apps, followUps, now, envVars, writeCall, dateCall, exited, errorCount, retryCount,
                 cycles>>

\* A stop() that also drops the invocations in flight.
StopAborting ==
  /\ ~exited
  /\ StopBody
  /\ cycles' = [c \in Cycles |-> IdleCycle]
  /\ UNCHANGED <<apps, followUps, now, envVars, callVars, exited, errorCount,
                 retryCount, faults>>

\* A stop() call.
Stop ==
  /\ ~exited
  /\ StopBody
  /\ UNCHANGED <<apps, followUps, now, envVars, callVars, exited, errorCount,
                 retryCount, cycles, faults>>

\* --------------------------------------------------- SchedulerService.restart
\* restart() up to its first await: stop() has run.
RestartStop ==
  /\ ~exited
  /\ restartCall \in {"idle", "ok", "error"}
  /\ StopBody
  /\ restartCall' = "stopped"
  /\ UNCHANGED <<apps, followUps, now, envVars, startCall, writeCall, dateCall, exited, errorCount,
                 retryCount, cycles, faults>>

\* A restart() that reports success once stop() has run.
RestartStartSkipped ==
  /\ ~exited
  /\ restartCall = "stopped"
  /\ restartCall' = "ok"
  /\ UNCHANGED <<apps, followUps, now, envVars, schedVars, startCall, writeCall, dateCall, exited,
                 errorCount, retryCount, cycles, faults>>

\* restart() goes on: start() returns at once, and so does restart().
RestartStart ==
  /\ ~exited
  /\ restartCall = "stopped"
  /\ StartBody
  /\ restartCall' = "ok"
  /\ UNCHANGED <<apps, followUps, now, envVars, startCall, writeCall, dateCall, exited, errorCount,
                 retryCount, cycles, faults>>

\* restart() goes on and setInterval throws in its start().
RestartStartFail ==
  /\ ~exited
  /\ restartCall = "stopped"
  /\ ~isRunning
  /\ startCall.pc # "sleep"
  /\ InstallFails("restart", 1)
  /\ UNCHANGED <<apps, followUps, now, envVars, writeCall, dateCall, exited, errorCount, retryCount,
                 cycles>>

\* ------------------------------------------------- JobApplication.create
\* A document is saved with the settings `in`: validation, then the save
\* hook, then the insert; a validation error stores nothing.
SaveSettings(a, in) ==
  /\ ~exited
  /\ IF PreValidate(in, now)
       THEN /\ apps' = [apps EXCEPT ![a] =
                          [status |-> "sent",
                           interval_days |-> in.interval_days,
                           max_count |-> Some(in.max_count),
                           follow_up_count |-> in.follow_up_count,
                           last_follow_up_date |-> Null,
                           next_follow_up_date |-> PreSave(in, now),
                           timezone |-> in.timezone]]
            /\ writeCall' = Some([id |-> a, input |-> in, outcome |-> "stored"])
       ELSE /\ apps' = apps
            /\ writeCall' = Some([id |-> a, input |-> in, outcome |-> "rejected"])
  /\ UNCHANGED <<followUps, now, envVars, schedVars, startCall, restartCall, dateCall,
                 errorCount, retryCount, cycles, exited, faults>>

\* -------------------------------------------- follow-up.controller.ts
\* createFollowUp for an existing application, without email credentials: the
\* record is created with the number the client gave, then the application's
\* count is raised and its last follow-up date set.
CreateFollowUp(a, n) ==
  /\ ~exited
  /\ apps[a].follow_up_count < MaxCount
  /\ followUps' = followUps (+) SetToBag({[original_application_id |-> a,
                                           status |-> "sent",
                                           follow_up_number |-> n]})
  /\ apps' = [apps EXCEPT ![a].follow_up_count = @ + 1,
                          ![a].last_follow_up_date = Some(now)]
  /\ UNCHANGED <<now, envVars, schedVars, callVars, errorCount, retryCount,
                 cycles, exited, faults>>

\* ---------------------------------------------- SchedulerService.getStatus
HealthInclusive(ec, th) ==
  IF ec > 0
    THEN IF ec >= th.unhealthy THEN "unhealthy"
         ELSE IF ec >= th.degraded THEN "degraded" ELSE "healthy"
    ELSE "healthy"

\* The health of getStatus(), from errorCount and the two thresholds.
Health(ec, th) ==
  IF ec > 0
    THEN IF ec > th.unhealthy THEN "unhealthy"
         ELSE IF ec > th.degraded THEN "degraded" ELSE "healthy"
    ELSE "healthy"

\* getStatus(): reads the fields, changes none.
GetStatus ==
  /\ ~exited
  /\ status' = Some([isRunning |-> isRunning,
                     errorCount |-> errorCount,
                     retryCount |-> retryCount,
                     startupAttempts |-> startupAttempts,
                     health |-> Health(errorCount, thresholds)])
  /\ UNCHANGED <<apps, followUps, now, sysZone, batchSize, harness, thresholds,
                 maxAttempts, schedVars, callVars, errorCount, retryCount, cycles, exited,
                 faults>>

\* ------------------------------------------- SchedulerService.processFollowUps
\* The call itself, up to the await of JobApplication.find.
BeginCycle(c) ==
  /\ cycles[c].pc \in Resting
  /\ cycles' = [cycles EXCEPT ![c] = [IdleCycle EXCEPT !.pc = "query"]]
  /\ UNCHANGED <<apps, followUps, now, envVars, callVars, exited, schedVars, errorCount,
                 retryCount, faults>>

\* The setInterval callback of start(): it calls processFollowUps() whatever
\* the state of the invocations before it.
TimerTick(c) ==
  /\ timers > 0
  /\ harness[c] = "timer"
  /\ BeginCycle(c)

\* A direct call of processFollowUps().
ManualRun(c) ==
  /\ harness[c] = "direct"
  /\ BeginCycle(c)

\* An end of the loop that leaves the counters as they are.
AdvanceKeepsCounters(c, cyc, ec) ==
  LET cy == cyc[c] IN
  /\ cycles' = IF cy.idx < Len(cy.batch)
                 THEN [cyc EXCEPT ![c].idx = cy.idx + 1,
                                  ![c].retrying = FALSE,
                                  ![c].pc = "send"]
                 ELSE [cyc EXCEPT ![c] = Ended("done")]
  /\ errorCount' = ec
  /\ retryCount' = retryCount

\* The for loop moves on after the dispatch of batch[idx] (cyc: the cycles
\* after that dispatch; ec: errorCount after it).  The next sendFollowUp runs
\* to the await of the email send; past the last application the counters are
\* reset and the call returns.
Advance(c, cyc, ec) ==
  LET cy == cyc[c] IN
  IF cy.idx < Len(cy.batch)
    THEN /\ cycles' = [cyc EXCEPT ![c].idx = cy.idx + 1,
                                  ![c].retrying = FALSE,
                                  ![c].pc = "send"]
         /\ errorCount' = ec
         /\ retryCount' = retryCount
    ELSE /\ cycles' = [cyc EXCEPT ![c] = Ended("done")]
         /\ errorCount' = 0
         /\ retryCount' = 0

\* The promise of invocation c rejects.  A direct caller gets the error.  The
\* setInterval callback has dropped the promise, so the rejection is
\* unhandled: Node warns and goes on, or ends the process with the error,
\* depending on its version and its --unhandled-rejections mode.
Rejected(c) ==
  /\ cycles' = [cycles EXCEPT ![c] = Ended("raised")]
  /\ exited' \in IF harness[c] = "timer" THEN BOOLEAN ELSE {FALSE}

\* A catch that retries every failed first attempt, with no ceiling.
DispatchFailedRetriesForever(c) ==
  /\ errorCount' = errorCount + 1
  /\ retryCount' = retryCount
  /\ IF cycles[c].retrying
       THEN Rejected(c)
       ELSE /\ exited' = exited
            /\ cycles' = [cycles EXCEPT ![c].pc = "sleep"]

\* sendFollowUp threw.  In the try block of the loop the catch counts the
\* error and, while retries are left, sleeps before one more sendFollowUp;
\* that retry runs inside the catch block, so when it throws the exception
\* leaves the loop for the outer catch, which counts it and rethrows.
DispatchFailed(c) ==
  IF cycles[c].retrying
    THEN /\ errorCount' = errorCount + 1
         /\ retryCount' = retryCount
         /\ Rejected(c)
    ELSE /\ exited' = exited
         /\ IF retryCount < maxAttempts
              THEN /\ errorCount' = errorCount + 1
                   /\ retryCount' = retryCount + 1
                   /\ cycles' = [cycles EXCEPT ![c].pc = "sleep"]
              ELSE Advance(c, cycles, errorCount + 1)

\* JobApplication.find answers: the documents matching now in the store.
QueryOk(c) ==
  /\ ~exited
  /\ cycles[c].pc = "query"
  /\ \E b \in Batches(DueQuery(now), batchSize) :
       Advance(c, [cycles EXCEPT ![c].batch = [i \in DOMAIN b |-> Snapshot(b[i])]],
               errorCount)
  /\ UNCHANGED <<apps, followUps, now, envVars, callVars, exited, schedVars, faults>>

\* JobApplication.find rejects: the outer catch counts it and rethrows.
QueryFail(c) ==
  /\ ~exited
  /\ cycles[c].pc = "query"
  /\ faults < MaxFaults
  /\ faults' = faults + 1
  /\ errorCount' = errorCount + 1
  /\ Rejected(c)
  /\ UNCHANGED <<apps, followUps, now, envVars, callVars, schedVars, retryCount>>

\* ------------------------------------------------ SchedulerService.sendFollowUp
\* emailService.sendFollowUp resolves true: FollowUp.create is issued.
SendOk(c) ==
  /\ ~exited
  /\ cycles[c].pc = "send"
  /\ cycles' = [cycles EXCEPT ![c].pc = "create"]
  /\ UNCHANGED <<apps, followUps, now, envVars, callVars, exited, schedVars, errorCount,
                 retryCount, faults>>

\* A dispatch that records the follow-up before the send is known to work.
SendFailRecorded(c) ==
  /\ ~exited
  /\ cycles[c].pc = "send"
  /\ faults < MaxFaults
  /\ faults' = faults + 1
  /\ DispatchFailed(c)
  /\ followUps' = followUps (+) SetToBag({FollowUpRecord(Current(c))})
  /\ UNCHANGED <<apps, now, envVars, callVars, schedVars>>

\* emailService.sendFollowUp rejects (sendEmail throws on a transport error).
SendFail(c) ==
  /\ ~exited
  /\ cycles[c].pc = "send"
  /\ faults < MaxFaults
  /\ faults' = faults + 1
  /\ DispatchFailed(c)
  /\ UNCHANGED <<apps, followUps, now, envVars, callVars, schedVars>>

\* FollowUp.create succeeds; findByIdAndUpdate is issued.
CreateOk(c) ==
  /\ ~exited
  /\ cycles[c].pc = "create"
  /\ followUps' = followUps (+) SetToBag({FollowUpRecord(Current(c))})
  /\ cycles' = [cycles EXCEPT ![c].pc = "update", ![c].created = @ + 1]
  /\ UNCHANGED <<apps, now, envVars, callVars, exited, schedVars, errorCount, retryCount,
                 faults>>

CreateFail(c) ==
  /\ ~exited
  /\ cycles[c].pc = "create"
  /\ faults < MaxFaults
  /\ faults' = faults + 1
  /\ DispatchFailed(c)
  /\ UNCHANGED <<apps, followUps, now, envVars, callVars, schedVars>>

\* The update document of findByIdAndUpdate, applied to the stored document:
\* $inc on the stored count, $set of the two dates computed from the snapshot.
PolicyUpdate(stored, doc, t) ==
  [stored EXCEPT
     !.follow_up_count = @ + 1,
     !.last_follow_up_date = Some(ToUTCTimestamp(t)),
     !.next_follow_up_date =
        ToUTCTimestamp(CalculateNextFollowUpDate(t, doc.interval_days, doc.timezone))]

\* findByIdAndUpdate succeeds; sendFollowUp returns and the loop moves on.
UpdateOk(c) ==
  /\ ~exited
  /\ cycles[c].pc = "update"
  /\ LET doc == Current(c) IN
       /\ apps' = [apps EXCEPT ![doc.id] = PolicyUpdate(@, doc, now)]
       /\ Advance(c, cycles, errorCount)
  /\ UNCHANGED <<followUps, now, envVars, callVars, exited, schedVars, faults>>

\* A rejected update that is logged and dropped: the loop goes on as after a
\* success, with nothing counted.
UpdateFailSwallowed(c) ==
  /\ ~exited
  /\ cycles[c].pc = "update"
  /\ faults < MaxFaults
  /\ faults' = faults + 1
  /\ Advance(c, cycles, errorCount)
  /\ UNCHANGED <<apps, followUps, now, envVars, callVars, exited, schedVars>>

UpdateFail(c) ==
  /\ ~exited
  /\ cycles[c].pc = "update"
  /\ faults < MaxFaults
  /\ faults' = faults + 1
  /\ DispatchFailed(c)
  /\ UNCHANGED <<apps, followUps, now, envVars, callVars, schedVars>>

\* The backoff sleep ends: sendFollowUp is called again with the same document.
Wake(c) ==
  /\ ~exited
  /\ cycles[c].pc = "sleep"
  /\ cycles' = [cycles EXCEPT ![c].pc = "send", ![c].retrying = TRUE,
                              ![c].retries = @ + 1]
  /\ UNCHANGED <<apps, followUps, now, envVars, callVars, exited, schedVars, errorCount,
                 retryCount, faults>>

\* Time passes.
Tick ==
  /\ ~exited
  /\ now < MaxTime
  /\ now' = now + 1
  /\ UNCHANGED <<apps, followUps, envVars, callVars, exited, schedVars, errorCount, retryCount,
                 cycles, faults>>

Next ==
  \/ Start
  \/ Stop
  \/ Tick
  \/ \E c \in Cycles : TimerTick(c)
  \/ \E c \in Cycles : ManualRun(c)
  \/ \E c \in Cycles : QueryOk(c)
  \/ \E c \in Cycles : QueryFail(c)
  \/ \E c \in Cycles : SendOk(c)
  \/ \E c \in Cycles : SendFail(c)
  \/ \E c \in Cycles : CreateOk(c)
  \/ \E c \in Cycles : CreateFail(c)
  \/ \E c \in Cycles : UpdateOk(c)
  \/ \E c \in Cycles : UpdateFail(c)
  \/ \E c \in Cycles : Wake(c)

Spec == Init /\ [][Next]_vars

\* Every invocation is started by the interval timer.
NextTimer ==
  \/ Start
  \/ Stop
  \/ Tick
  \/ \E c \in Cycles : TimerTick(c)
  \/ \E c \in Cycles : QueryOk(c)
  \/ \E c \in Cycles : QueryFail(c)
  \/ \E c \in Cycles : SendOk(c)
  \/ \E c \in Cycles : SendFail(c)
  \/ \E c \in Cycles : CreateOk(c)
  \/ \E c \in Cycles : CreateFail(c)
  \/ \E c \in Cycles : UpdateOk(c)
  \/ \E c \in Cycles : UpdateFail(c)
  \/ \E c \in Cycles : Wake(c)

SpecTimer == InitTimer /\ [][NextTimer]_vars

\* A direct call made when no invocation is in flight, as a caller that
\* awaits each call makes it.
AwaitedRun(c) ==
  /\ \A d \in Cycles : cycles[d].pc \in Resting
  /\ harness[c] = "direct"
  /\ BeginCycle(c)

\* One awaited call after another, the timer never started.
NextZones ==
  \/ Tick
  \/ \E c \in Cycles : AwaitedRun(c)
  \/ \E c \in Cycles : QueryOk(c)
  \/ \E c \in Cycles : QueryFail(c)
  \/ \E c \in Cycles : SendOk(c)
  \/ \E c \in Cycles : SendFail(c)
  \/ \E c \in Cycles : CreateOk(c)
  \/ \E c \in Cycles : CreateFail(c)
  \/ \E c \in Cycles : UpdateOk(c)
  \/ \E c \in Cycles : UpdateFail(c)
  \/ \E c \in Cycles : Wake(c)

\* getStatus() for any error count and any thresholds in order (the error
\* count is where failed invocations may have left it).
InitHealth ==
  /\ \E docs \in InitialApps :
       /\ apps = docs
       /\ now = 0 /\ sysZone = "UTC" /\ batchSize = DefaultBatchSize
       /\ harness = TimerAndDirect
       /\ followUps = EmptyBag
       /\ cycles = [c \in Cycles |-> IdleCycle]
  /\ thresholds \in {th \in [degraded : 1..MaxThreshold, unhealthy : 1..MaxThreshold] :
                       th.degraded <= th.unhealthy}
  /\ errorCount \in 0..MaxErrorCount
  /\ status = Null
  /\ poller = FALSE /\ isRunning = FALSE /\ startupAttempts = 0
  /\ timers = 0 /\ startCall = NoStartCall /\ restartCall = "idle"
  /\ writeCall = Null /\ dateCall = Null /\ maxAttempts = MaxRetryAttempts
  /\ retryCount = 0 /\ exited = FALSE /\ faults = 0

\* start, stop, restart and getStatus, with setInterval failing at times.
NextLifecycle ==
  \/ Start
  \/ StartFail
  \/ StartRetryOk
  \/ StartRetryFail
  \/ Stop
  \/ RestartStop
  \/ RestartStart
  \/ RestartStartFail
  \/ GetStatus

SpecLifecycle == Init /\ [][NextLifecycle]_vars

\* Validated writes of follow-up settings, in a process whose zone is UTC or
\* 12 hours ahead of it, at some time after the epoch.
InitValidate ==
  /\ \E docs \in InitialApps :
       /\ apps = docs
       /\ batchSize = DefaultBatchSize
       /\ harness = DirectOnly
       /\ thresholds = DefaultThresholds
       /\ followUps = EmptyBag
       /\ cycles = [c \in Cycles |-> IdleCycle]
  /\ sysZone \in {"UTC", "Etc/GMT-12"}
  /\ now = 1
  /\ status = Null /\ writeCall = Null /\ dateCall = Null
  /\ maxAttempts = MaxRetryAttempts
  /\ poller = FALSE /\ isRunning = FALSE /\ startupAttempts = 0
  /\ timers = 0 /\ startCall = NoStartCall /\ restartCall = "idle"
  /\ errorCount = 0 /\ retryCount = 0 /\ exited = FALSE /\ faults = 0

NextValidate ==
  \E a \in Apps, in \in SettingsInputs : SaveSettings(a, in)

SpecValidate == InitValidate /\ [][NextValidate]_vars

\* The scheduler with awaited calls, its lifecycle calls and the follow-up
\* endpoint of the API, over one application to follow up and one answered,
\* at one time.
InitController ==
  \E docs \in {d \in InitialApps : d["a2"].status = "responded"} :
    Constructed("UTC", DefaultBatchSize, docs, DirectOnly)

NextController ==
  \/ Start
  \/ Stop
  \/ RestartStop
  \/ RestartStart
  \/ GetStatus
  \/ \E a \in Apps : CreateFollowUp(a, 1)
  \/ \E c \in Cycles : AwaitedRun(c)
  \/ \E c \in Cycles : QueryOk(c)
  \/ \E c \in Cycles : QueryFail(c)
  \/ \E c \in Cycles : SendOk(c)
  \/ \E c \in Cycles : SendFail(c)
  \/ \E c \in Cycles : CreateOk(c)
  \/ \E c \in Cycles : CreateFail(c)
  \/ \E c \in Cycles : UpdateOk(c)
  \/ \E c \in Cycles : UpdateFail(c)
  \/ \E c \in Cycles : Wake(c)

SpecController == InitController /\ [][NextController]_vars

NextHealth ==
  \/ Start
  \/ Stop
  \/ GetStatus

SpecHealth == InitHealth /\ [][NextHealth]_vars

\* A batch size below the number of due applications.
SpecBatch == InitBatch /\ [][Next]_vars

\* SCHEDULER_MAX_RETRIES=1 and two due applications.
InitRetry ==
  \E docs \in InitialAppsBacklog :
    ConstructedWith("UTC", DefaultBatchSize, docs, TimerAndDirect, 1)

SpecRetry == InitRetry /\ [][Next]_vars

\* ------------------------------------- a recipient whose mail always bounces
\* The applications whose email send fails on every attempt; the sends of the
\* others succeed, and so do the store's calls.
Broken == {"a1"}

\* emailService.sendFollowUp fails for an application of Broken.
SendRejected(c) ==
  /\ ~exited
  /\ cycles[c].pc = "send"
  /\ Current(c).id \in Broken
  /\ errorCount < MaxErrors
  /\ DispatchFailed(c)
  /\ UNCHANGED <<apps, followUps, now, envVars, callVars, schedVars, faults>>

\* emailService.sendFollowUp resolves true for any other application.
SendDelivered(c) ==
  /\ cycles[c].pc = "send"
  /\ Current(c).id \notin Broken
  /\ SendOk(c)

InitStarve ==
  \E docs \in InitialAppsBacklog :
    Constructed("UTC", DefaultBatchSize, docs, TimerOnly)

\* The steps of invocation c that the event loop takes on its own: a pending
\* call settles, the backoff sleep ends.
CycleStep(c) ==
  \/ QueryOk(c)
  \/ SendRejected(c)
  \/ SendDelivered(c)
  \/ CreateOk(c)
  \/ UpdateOk(c)
  \/ Wake(c)

NextStarve ==
  \/ Start
  \/ Stop
  \/ \E c \in Cycles : TimerTick(c)
  \/ \E c \in Cycles : CycleStep(c)

\* While a timer is installed it keeps firing (setInterval, every
\* pollIntervalMs), and every pending promise of an invocation settles.
SpecStarve ==
  /\ InitStarve
  /\ [][NextStarve]_vars
  /\ WF_vars(\E c \in Cycles : TimerTick(c))
  /\ \A c \in Cycles : WF_vars(CycleStep(c))

\* ------------------------------------------------ date.utils.ts, called alone
\* calculateNextFollowUpDate(currentDate, intervalDays, timezone) is called:
\* a negative interval throws, otherwise the date is returned.
CallCalculateNextFollowUpDate(t, days, tz) ==
  /\ ~exited
  /\ dateCall' = Some([currentDate |-> t, intervalDays |-> days, timezone |-> tz,
                       result |-> IF days < 0
                                    THEN Null
                                    ELSE Some(CalculateNextFollowUpDate(t, days, tz))])
  /\ UNCHANGED <<apps, followUps, now, envVars, schedVars, startCall, restartCall,
                 writeCall, errorCount, retryCount, cycles, exited, faults>>

\* The date utilities in a process of any of the zones.
InitDate ==
  \E docs \in InitialApps, zone \in Zones :
    Constructed(zone, DefaultBatchSize, docs, DirectOnly)

NextDate ==
  \E t \in 0..MaxDate, days \in -1..MaxDays, tz \in Zones :
    CallCalculateNextFollowUpDate(t, days, tz)

SpecDate == InitDate /\ [][NextDate]_vars

\* The process runs in a zone 24 hours ahead of a policy's zone.
SpecZones == InitZones /\ [][NextZones]_vars


\* ------------------------------------------------------------------ claims
\* The eligibility of a policy at time t, as the specification words it.
FollowUpEligible(doc, t) ==
  /\ doc.status = "sent"
  /\ doc.next_follow_up_date <= t
  /\ doc.follow_up_count < (IF doc.max_count = Null THEN 1 ELSE doc.max_count[1])

\* The invocations that are running (the backoff sleep included).
Active == {c \in Cycles : cycles[c].pc \notin Resting}

\* C1: every application an invocation dispatches satisfied, when its query
\* was answered, status = sent, next_follow_up_date <= now and
\* follow_up_count < max_count (1 when absent).  The query's time is not
\* after the present, so a date due then is due now.
C1_DispatchedWereEligible ==
  \A c \in Cycles : \A i \in DOMAIN cycles[c].batch :
    FollowUpEligible(cycles[c].batch[i], now)

\* C1 witness: an email has gone out for a dispatched application while the
\* store holds an application that is not eligible and was left out.
C1_Witness ==
  \E c \in Cycles :
    /\ cycles[c].pc = "create"
    /\ \E a \in Apps :
         /\ ~FollowUpEligible(apps[a], now)
         /\ \A i \in DOMAIN cycles[c].batch : cycles[c].batch[i].id # a

\* C2: in every reachable state each application's follow_up_count is at most
\* its max_count (1 when absent).
C2_CountWithinMax ==
  \A a \in Apps :
    apps[a].follow_up_count <= IfNull(apps[a].max_count, DefaultMaxCount)

\* C3: when a dispatch whose email was sent completes, there is exactly one
\* FollowUp record for the application with status sent and number old
\* count + 1, the stored count is the old count + 1, last_follow_up_date is
\* set and next_follow_up_date is later than it was (old: what the cycle's
\* query returned).
C3_SuccessfulDispatchAdvancesOnce ==
  [][\A c \in Cycles :
       (cycles[c].pc = "update" /\ cycles'[c] # cycles[c] /\ faults' = faults)
         => LET doc == Current(c) IN
            /\ CopiesIn([original_application_id |-> doc.id,
                         status |-> "sent",
                         follow_up_number |-> doc.follow_up_count + 1],
                        followUps') = 1
            /\ apps'[doc.id].follow_up_count = doc.follow_up_count + 1
            /\ apps'[doc.id].last_follow_up_date # Null
            /\ apps'[doc.id].next_follow_up_date > doc.next_follow_up_date]_vars

\* C4: a dispatch whose email send fails leaves the stored application (count
\* and both dates) as it was and creates no FollowUp record, so an application
\* that was eligible still is.
C4_FailedSendWritesNothing ==
  [][\A c \in Cycles :
       (cycles[c].pc = "send" /\ cycles'[c] # cycles[c] /\ faults' = faults + 1)
         => LET a == Current(c).id IN
            /\ apps'[a] = apps[a]
            /\ followUps' = followUps
            /\ FollowUpEligible(apps[a], now) => FollowUpEligible(apps'[a], now')]_vars

\* C4 witness: the send of a dispatch has failed (the invocation sleeps before
\* its retry), the application is stored as the query returned it, still
\* eligible, and no FollowUp record exists.
C4_Witness ==
  \E c \in Cycles :
    /\ cycles[c].pc = "sleep"
    /\ Snapshot(Current(c).id) = Current(c)
    /\ FollowUpEligible(apps[Current(c).id], now)
    /\ followUps = EmptyBag

\* C5: at most one timer-driven invocation of processFollowUps is active at
\* any time (its backoff sleep included).
C5_AtMostOneActive == Cardinality(Active) <= 1

\* C6: when two invocations dispatch the same application from the same
\* follow_up_count, they do not both get past FollowUp.create for that number
\* and the stored count does not go beyond that count + 1.
C6_OneOfTwoAdvances ==
  \A c, d \in Active :
    \A i \in DOMAIN cycles[c].batch : \A j \in DOMAIN cycles[d].batch :
      LET x == cycles[c].batch[i]
          y == cycles[d].batch[j] IN
      (c # d /\ x.id = y.id /\ x.follow_up_count = y.follow_up_count)
        => /\ apps[x.id].follow_up_count <= x.follow_up_count + 1
           /\ ~(/\ cycles[c].pc = "update" /\ cycles[c].idx = i
                /\ cycles[d].pc = "update" /\ cycles[d].idx = j)

\* C7: an invocation whose query succeeded ends only after it has dispatched
\* the last application of its batch.
C7_BatchNeverAborted ==
  [][\A c \in Cycles :
       (cycles[c].pc \in {"send", "create", "update"} /\ cycles'[c].pc \in Resting)
         => cycles[c].idx = Len(cycles[c].batch)]_vars

\* C8: an invocation in which a dispatch failed (its last application is in
\* its retry) ends by returning to its caller, with errorCount above 0.
C8_FailureCountedNotRaised ==
  [][\A c \in Cycles :
       (cycles[c].retrying /\ cycles[c].pc \notin Resting /\ cycles'[c].pc \in Resting)
         => (cycles'[c].pc = "done" /\ errorCount' > 0)]_vars

\* C9: the number of email sends attempted for an application is at most its
\* max_count (1 when absent); the retry of a dispatch is at least the second.
C9_AttemptsWithinMax ==
  \A c \in Cycles :
    (cycles[c].pc = "send" /\ cycles[c].retrying)
      => 2 <= IfNull(Current(c).max_count, DefaultMaxCount)

\* C10: while nothing has failed, an awaited call of processFollowUps sends
\* nothing for an application that a call before it handled at the same time.
C10_SecondRunSendsNothing ==
  \A c \in Cycles :
    (faults = 0 /\ cycles[c].pc = "send")
      => Current(c).last_follow_up_date # Some(now)

\* C11: one invocation dispatches at most batchSize distinct applications
\* and creates at most batchSize FollowUp records.
C11_BatchSizeRespected ==
  \A c \in Cycles :
    /\ Len(cycles[c].batch) <= batchSize
    /\ Cardinality({cycles[c].batch[i].id : i \in DOMAIN cycles[c].batch}) <= batchSize
    /\ cycles[c].created <= batchSize

\* C12: when the query of an invocation fails, the invocation dispatches
\* nothing, errorCount goes up by 1 and the call rejects; when the timer made
\* the call, the process goes on with the scheduler and its timer as they
\* were.
C12_QueryFailureSurvived ==
  [][\A c \in Cycles :
       (cycles[c].pc = "query" /\ cycles'[c] # cycles[c] /\ faults' = faults + 1)
         => /\ cycles'[c].pc = "raised"
            /\ errorCount' = errorCount + 1
            /\ apps' = apps /\ followUps' = followUps
            /\ harness[c] = "timer"
                 => (~exited' /\ isRunning' = isRunning /\ poller' = poller)]_vars

\* C13: the health getStatus() returns is healthy when errorCount is at most
\* degradedThreshold, degraded when it is above degradedThreshold and at most
\* unhealthyThreshold, unhealthy when it is above unhealthyThreshold.
C13_HealthByThresholds ==
  status # Null =>
    LET st == status[1] IN
    /\ st.errorCount = errorCount
    /\ (st.errorCount <= thresholds.degraded) <=> (st.health = "healthy")
    /\ (st.errorCount > thresholds.degraded /\ st.errorCount <= thresholds.unhealthy)
         <=> (st.health = "degraded")
    /\ (st.errorCount > thresholds.unhealthy) <=> (st.health = "unhealthy")

\* C13 witness: with the default thresholds getStatus() has answered degraded
\* for errorCount = degradedThreshold + 1.
C13_Witness ==
  /\ status # Null
  /\ thresholds = DefaultThresholds
  /\ status[1].errorCount = thresholds.degraded + 1
  /\ status[1].health = "degraded"

\* C14: after any sequence of start, stop and restart calls at most one
\* interval timer is installed, and one is installed exactly when isRunning
\* is true (start() on a running scheduler installs no second one).
C14_OneTimerIffRunning ==
  /\ timers <= 1
  /\ (timers = 1) <=> isRunning
  /\ poller <=> isRunning

\* C14 witness: the scheduler runs with its one timer after a start() call
\* that was retried, a stop() and start() of restart() having run too.
C14_Witness ==
  /\ isRunning /\ timers = 1
  /\ startCall.pc = "ok"
  /\ restartCall = "ok"

\* C15: a stop() that finds the scheduler running leaves it stopped with no
\* timer installed, and no timer tick begins an invocation while the
\* scheduler is stopped.
C15_StopCancelsTimer ==
  [][/\ (isRunning /\ ~isRunning') => (timers' = 0 /\ ~poller')
     /\ \A c \in Cycles :
          (cycles[c].pc \in Resting /\ cycles'[c].pc = "query") => isRunning]_vars

\* C15 witness: the scheduler is stopped with no timer after a tick had
\* started an invocation that has returned.
C15_Witness ==
  /\ ~isRunning /\ timers = 0
  /\ \E c \in Cycles : cycles[c].pc = "done"

\* C16: a stop() leaves the invocations in flight, the collections and the
\* counters as they are, and the update of an invocation that goes on while
\* the scheduler is stopped takes effect.
C16_StopLeavesCycleRunning ==
  [][/\ (isRunning /\ ~isRunning')
          => /\ cycles' = cycles
             /\ apps' = apps /\ followUps' = followUps
             /\ errorCount' = errorCount /\ retryCount' = retryCount
     /\ \A c \in Cycles :
          (~isRunning /\ cycles[c].pc = "update" /\ cycles'[c] # cycles[c]
             /\ faults' = faults)
            => LET a == Current(c).id IN
               /\ apps'[a].follow_up_count = apps[a].follow_up_count + 1
               /\ apps'[a].last_follow_up_date = Some(now)]_vars

\* C16 witness: the scheduler is stopped, and an invocation the timer started
\* is in the retry of a dispatch, its update issued.
C16_Witness ==
  /\ ~isRunning /\ timers = 0
  /\ \E c \in Cycles : cycles[c].pc = "update" /\ cycles[c].retrying

\* C17: when restart() returns without error the scheduler is running with
\* exactly one timer installed; when its start() gives up, restart() fails.
C17_RestartLeavesRunning ==
  [][/\ (restartCall # "ok" /\ restartCall' = "ok")
          => (isRunning' /\ timers' = 1 /\ poller')
     /\ (startCall' # startCall /\ startCall'.pc = "failed"
           /\ startCall'.via = "restart")
          => restartCall' = "error"]_vars

\* C17 witness: restart() has returned without error on a scheduler that its
\* own start() call started at the second attempt.
C17_Witness ==
  /\ restartCall = "ok"
  /\ startCall = [pc |-> "ok", attempts |-> 2, via |-> "restart"]
  /\ isRunning /\ timers = 1

\* C18: a start() call fails only after it has tried the ceiling of 3
\* installations, and leaves the scheduler stopped with no timer.
C18_StartFailsAfterCeiling ==
  [][(startCall' # startCall /\ startCall'.pc = "failed")
       => /\ startCall'.attempts = MaxStartupAttempts
          /\ ~isRunning' /\ timers' = 0]_vars

\* C19: a validated write of settings with interval_days < 1, max_count < 1,
\* follow_up_count < 0 or a next_follow_up_date that is not in the future is
\* rejected and stores nothing; what a validated write stores has none of
\* these, and a next_follow_up_date that was given is stored as given.
C19_InvalidSettingsRejected ==
  [][(writeCall' # writeCall) =>
       LET w == writeCall'[1]
           in == w.input
           given == in.next_follow_up_date
           bad == \/ in.interval_days < 1
                  \/ in.max_count < 1
                  \/ in.follow_up_count < 0
                  \/ (given # Null /\ given[1] <= now)
           st == apps'[w.id] IN
       /\ bad => (w.outcome = "rejected" /\ apps' = apps)
       /\ w.outcome = "stored"
            => /\ st.interval_days >= 1
               /\ st.max_count[1] >= 1
               /\ st.follow_up_count >= 0
               /\ st.next_follow_up_date > now
               /\ given # Null => st.next_follow_up_date = given[1]]_vars

\* C20: an application's follow_up_count never decreases, and its
\* follow_up_count, last_follow_up_date and next_follow_up_date change only in
\* the step in which a dispatch, its email sent, updates the application.
C20_PolicyChangedByDispatchOnly ==
  [][\A a \in Apps :
       /\ apps'[a].follow_up_count >= apps[a].follow_up_count
       /\ (\/ apps'[a].follow_up_count # apps[a].follow_up_count
           \/ apps'[a].last_follow_up_date # apps[a].last_follow_up_date
           \/ apps'[a].next_follow_up_date # apps[a].next_follow_up_date)
            => \E c \in Cycles :
                 /\ cycles[c].pc = "update"
                 /\ Current(c).id = a
                 /\ cycles'[c] # cycles[c]
                 /\ faults' = faults]_vars

\* C21: when a dispatch fails and retryCount < maxAttempts, errorCount and
\* retryCount each go up by 1 and the invocation sleeps; when the sleep ends
\* the same application is dispatched once more, before any later one; and
\* when that retry succeeds the invocation has created exactly one FollowUp
\* record for the application and its follow_up_count is one above the count
\* the query read.
C21_RetryOnceThenOneRecord ==
  [][\A c \in Cycles :
       LET cy == cycles[c]
           cz == cycles'[c]
       IN /\ ( /\ cy.pc \in {"send", "create", "update"}
               /\ ~cy.retrying
               /\ retryCount < maxAttempts
               /\ faults' = faults + 1
               /\ cz # cy )
             => /\ errorCount' = errorCount + 1
                /\ retryCount' = retryCount + 1
                /\ cz.pc = "sleep" /\ cz.idx = cy.idx /\ cz.batch = cy.batch
          /\ (cy.pc = "sleep" /\ cz # cy)
             => /\ cz.pc = "send" /\ cz.idx = cy.idx /\ cz.batch = cy.batch
                /\ cz.retries = cy.retries + 1
          /\ ( /\ cy.pc = "update"
               /\ cy.retrying
               /\ cy.idx = 1
               /\ faults' = faults
               /\ cz # cy )
             => /\ cy.created = 1
                /\ apps'[cy.batch[1].id].follow_up_count
                     = cy.batch[1].follow_up_count + 1
    ]_vars

\* C22: retryCount never exceeds maxAttempts, and no single invocation makes
\* more than maxAttempts retry dispatches, overlapping invocations included.
C22_RetriesWithinCeiling ==
  /\ retryCount <= maxAttempts
  /\ \A c \in Cycles : cycles[c].retries <= maxAttempts

C24_EarliestDueFirst ==
  [][\A c \in Cycles :
       (cycles[c].pc = "query" /\ cycles'[c].pc = "send")
       => LET b == cycles'[c].batch
              taken == {b[i].id : i \in DOMAIN b}
          IN /\ \A i \in DOMAIN b : \A a \in Apps \ taken :
                  FollowUpEligible(apps[a], now)
                  => b[i].next_follow_up_date <= apps[a].next_follow_up_date
             /\ \A i, j \in DOMAIN b :
                  i < j => b[i].next_follow_up_date <= b[j].next_follow_up_date
    ]_vars

\* C25: when FollowUp.create or the policy update fails after the email was
\* sent, the failure reaches the loop's failure handling, which counts it
\* (errorCount goes up by 1; when the failed application was the last of the
\* batch and no retry is left, the loop ends in the same synchronous block
\* and its reset follows the count), and the stored follow_up_count and
\* next_follow_up_date are not advanced, so an application that was eligible
\* stays eligible.
C25_StoreFailureCountedNothingAdvanced ==
  [][\A c \in Cycles :
       LET cy == cycles[c]
           cz == cycles'[c]
       IN ( /\ cy.pc \in {"create", "update"}
            /\ faults' = faults + 1
            /\ cz # cy )
          => LET id == cy.batch[cy.idx].id
             IN /\ \/ errorCount' = errorCount + 1
                   \/ /\ ~cy.retrying /\ retryCount >= maxAttempts
                      /\ cy.idx = Len(cy.batch)
                      /\ cz.pc = "done" /\ errorCount' = 0
                /\ (cz.pc \in {"sleep", "raised"} \/ retryCount >= maxAttempts)
                /\ apps'[id].follow_up_count = apps[id].follow_up_count
                /\ apps'[id].next_follow_up_date = apps[id].next_follow_up_date
                /\ FollowUpEligible(apps[id], now)
                   => FollowUpEligible(apps'[id], now')
    ]_vars

\* C25 witness: the policy update has failed after the email went out and the
\* record was created; the error is counted, the invocation sleeps before its
\* retry, and the stored application is as the query read it, still eligible.
C25_Witness ==
  \E c \in Cycles :
    /\ cycles[c].pc = "sleep"
    /\ cycles[c].created = 1
    /\ errorCount > 0
    /\ apps[Current(c).id].follow_up_count = Current(c).follow_up_count
    /\ FollowUpEligible(apps[Current(c).id], now)

\* C26: calculateNextFollowUpDate(t, 0, tz) returns a date whose epoch value
\* is t, for every zone tz and whatever the zone of the process.
C26_ZeroIntervalKeepsInstant ==
  (dateCall # Null /\ dateCall[1].intervalDays = 0)
  => /\ dateCall[1].result # Null
     /\ ToUTCTimestamp(dateCall[1].result[1]) = dateCall[1].currentDate

\* C27: the next_follow_up_date a successful dispatch writes is the dispatch
\* time plus interval_days whole days, for every zone of the application.
C27_NextDateIsNowPlusInterval ==
  [][\A c \in Cycles :
       LET cy == cycles[c] IN
       (cy.pc = "update" /\ faults' = faults /\ cycles'[c] # cy)
       => LET doc == cy.batch[cy.idx]
          IN apps'[doc.id].next_follow_up_date
               = now + doc.interval_days * DayUnits
    ]_vars

\* C28: whenever an invocation issues the email send for an application (the
\* first dispatch after the query or after the previous application, or the
\* retry after the backoff sleep), the application as stored at that moment
\* has status sent, is due, and has follow_up_count < max_count.
C28_SendOnlyWhileEligible ==
  [][\A c \in Cycles :
       (cycles'[c].pc = "send" /\ cycles'[c] # cycles[c])
       => FollowUpEligible(apps'[cycles'[c].batch[cycles'[c].idx].id], now')
    ]_vars

\* C29: whenever no dispatch is in flight, every application has exactly
\* follow_up_count FollowUp records, numbered 1..follow_up_count with no
\* number twice, after failures, retries and overlapping invocations too.
C29_RecordsMatchCount ==
  (\A c \in Cycles : cycles[c].pc \in Resting)
  => \A a \in Apps :
       /\ \A r \in BagToSet(followUps) :
            r.original_application_id = a
            => /\ r.follow_up_number \in 1..apps[a].follow_up_count
               /\ CopiesIn(r, followUps) = 1
       /\ \A n \in 1..apps[a].follow_up_count :
            \E r \in BagToSet(followUps) :
              r.original_application_id = a /\ r.follow_up_number = n

\* C30: while the scheduler stays running (timer installed, process alive),
\* an eligible application whose own send succeeds is eventually dispatched
\* and recorded, although another application of the same batch fails on
\* every attempt in every cycle.
C30_HealthyApplicationEventuallyDispatched ==
  ( /\ isRunning /\ timers > 0 /\ ~exited
    /\ FollowUpEligible(apps["a2"], now) )
  ~> ( \/ apps["a2"].follow_up_count > 0
       \/ ~isRunning
       \/ exited )

\* C30 witness: the broken application came first in the batch and failed
\* with no retry left, the loop moved on, and the email of the healthy
\* application has gone out, in a scheduler that is still running.
C30_Witness ==
  /\ isRunning /\ timers > 0 /\ ~exited
  /\ \E c \in Cycles :
       /\ cycles[c].pc = "create"
       /\ cycles[c].idx = 2
       /\ cycles[c].batch[1].id \in Broken
       /\ cycles[c].batch[2].id = "a2"
  /\ retryCount = maxAttempts
  /\ errorCount > maxAttempts

====
